---- MODULE Spec2Model ----
(***************************************************************************)
(* Haptic texture controller: the serial transport session                 *)
(* (MCUCommunicator), the scanner application around it                    *)
(* (HapticHistologyScanner, main) and the tissue analyzer of the app-lab   *)
(* version (SimpleKMeans, TissueAnalyzer and the web handlers).            *)
(*                                                                         *)
(* Time is counted in milliseconds.  A write to the serial port is logged  *)
(* in `wire` whether it succeeds or not; the frames that reached the far   *)
(* end are the logged writes with ok = TRUE.                               *)
(***************************************************************************)
EXTENDS Integers, Sequences, FiniteSets, TLC

VARIABLES
    mcu,              \* MCUCommunicator: serial, demo_mode, last_send_time
    wire,             \* log of serial.write calls: [op, val, ok]
    d_sent_at,        \* the times at which the delivered D frames were written
    now,              \* time.time(), in ms
    raised,           \* session harness: the last call let an exception escape
    first_call,       \* session harness: time of the first send_density call, -1 before
    conn,             \* what connect() met: "none" before the call, then its outcome
    pc,               \* main(): "start", "loop", "feedback", "render", "except", "exited"
    running,          \* HapticHistologyScanner.running
    haptic_mode,      \* config.haptic_mode
    current_density,  \* HapticHistologyScanner.current_density
    prev_density,     \* HapticHistologyScanner.prev_density
    seg_map,          \* TissueSegmenter.haptic_map: NoMap (None) or rows [y][x]
    shutdown_calls,   \* number of calls of HapticHistologyScanner.shutdown
    exc,              \* exception in flight in main(): "none" or its kind
    uncaught,         \* an exception left main()
    mouse,            \* run(): mouse_x, mouse_y of the current pass of the loop
    analyzer,         \* TissueAnalyzer: haptic_map, image_width, image_height, trained, kmeans
    train_pc,         \* load_and_train in steps: "idle", "fitted", "rows"
    pixels,           \* load_and_train's local list of pixels: the resized image last decoded
    old_map,          \* the haptic map installed when the running load_and_train began
    q,                \* the last call on the analyzer: its operation, arguments and outcome
    km,               \* a SimpleKMeans and the fit() it runs: n_clusters, max_iters,
                      \* centroids, data, rounds done, error raised, position
    web,              \* app-lab globals current_density and current_mode, and what
                      \* the last socket handler returned
    hs                \* connect() in steps: position, seconds waited for the ready
                      \* token, other lines read

vars == <<mcu, wire, d_sent_at, now, raised, first_call, conn, pc, running, haptic_mode,
          current_density, prev_density, seg_map, shutdown_calls, exc, uncaught, mouse,
          analyzer, train_pc, pixels, old_map, q, km, web, hs>>

sessionVars == <<mcu, wire, d_sent_at, now, raised, first_call, conn>>
appVars == <<pc, running, haptic_mode, current_density, prev_density, seg_map,
             shutdown_calls, exc, uncaught, mouse>>
labVars == <<analyzer, train_pc, pixels, old_map, q>>
fitVars == <<km>>
webVars == <<web>>
hsVars == <<hs>>

----------------------------------------------------------------------------
(* Bounds of the model *)

StartTime == 20        \* the clock's value when the program starts (time.time() is far from 0)
TimeStep == 5          \* the clock advances by 0, 1 or 2 steps at a time
MaxTime == 35          \* the clock stops here
MaxWire == 3           \* serial.write calls logged, session driven call by call
MaxAppWire == 2        \* serial.write calls logged, session driven by the scanner
DispW == 2             \* width of the display-size image and haptic map
DispH == 2             \* height of the display-size image and haptic map
LabW == 3              \* width of the analyzer's resized image (200 in the program)
LabH == 2              \* height of the analyzer's resized image (200 in the program)
MaxLines == 2          \* lines other than the ready token read during the handshake
NormDen == 4           \* normalized coordinates are the multiples of 1/NormDen
MaxData == 3           \* longest data list given to fit
MaxClusters == 3       \* largest n_clusters given to SimpleKMeans

----------------------------------------------------------------------------
(* Program constants *)

send_interval == 10    \* MCUCommunicator.send_interval = 0.01 s

\* SimpleKMeans(n_clusters=3, max_iters=10)
n_clusters == 3
max_iters == 10

Densities == {0, 80, 255}
Modes == {"DIRECT", "TEXTURE", "TUMOR_LOCK", "EDGE_DETECT"}
InitialMode == "TEXTURE"
edge_detection_threshold == 50
handshake_window == 3  \* seconds connect() waits for MCU_READY

Last(s) == s[Len(s)]

\* haptic_map = None: no rows
NoMap == <<>>

\* f"D:{density}\n" and f"M:{mode}\n": opcode, payload; the log adds the outcome
Frame(op, val, ok) == [op |-> op, val |-> val, ok |-> ok]

\* the frames that reached the far end, in order
RECURSIVE Delivered(_)
Delivered(w) ==
    IF w = <<>> THEN <<>>
    ELSE IF w[1].ok THEN <<w[1]>> \o Delivered(Tail(w))
         ELSE Delivered(Tail(w))

DFrames(w) == SelectSeq(Delivered(w), LAMBDA f : f.op = "D")

\* the port's clock log: a D frame newly delivered between w and w2 is stamped t
Stamp(ts, w, w2, t) ==
    IF Len(DFrames(w2)) > Len(DFrames(w)) THEN Append(ts, t) ELSE ts

----------------------------------------------------------------------------
(* MCUCommunicator *)

MCUCommunicator == [serial |-> "None", demo_mode |-> FALSE, last_send_time |-> 0]

\* serial.Serial.write: fails when the port is closed, or on an I/O error (ok = FALSE)
WriteOk(m, ok) == ok /\ m.serial = "open"

\* connect() that forgets demo mode when the endpoint does not open
connect_keeps_online(m, outcome) ==
    CASE outcome = "open_fail" -> m
      [] outcome = "ready"     -> [m EXCEPT !.serial = "open"]
      [] outcome = "timeout"   -> [m EXCEPT !.serial = "open"]
      [] outcome = "read_fail" -> [m EXCEPT !.serial = "open", !.demo_mode = TRUE]

\* connect() that gives the session up when the ready token does not come
connect_timeout_fatal(m, outcome) ==
    CASE outcome = "open_fail" -> [m EXCEPT !.demo_mode = TRUE]
      [] outcome = "ready"     -> [m EXCEPT !.serial = "open"]
      [] outcome = "timeout"   -> [m EXCEPT !.serial = "open", !.demo_mode = TRUE]
      [] outcome = "read_fail" -> [m EXCEPT !.serial = "open", !.demo_mode = TRUE]

\* connect(): outcome is what the endpoint does
\*   "open_fail": serial.Serial(...) raises      "ready": MCU_READY is read
\*   "timeout":   3 s pass without the token     "read_fail": in_waiting/readline raises
connect(m, outcome) ==
    CASE outcome = "open_fail" -> [m EXCEPT !.demo_mode = TRUE]
      [] outcome = "ready"     -> [m EXCEPT !.serial = "open"]
      [] outcome = "timeout"   -> [m EXCEPT !.serial = "open"]
      [] outcome = "read_fail" -> [m EXCEPT !.serial = "open", !.demo_mode = TRUE]

ConnectOutcomes == {"open_fail", "ready", "timeout", "read_fail"}

\* send_density that never advances last_send_time
send_density_no_stamp(m, w, density, t, ok) ==
    IF t - m.last_send_time < send_interval
    THEN [mcu |-> m, wire |-> w, raised |-> FALSE]
    ELSE IF m.serial # "None" /\ ~m.demo_mode
         THEN [mcu |-> m,
               wire |-> Append(w, Frame("D", density, WriteOk(m, ok))),
               raised |-> FALSE]
         ELSE [mcu |-> m, wire |-> w, raised |-> FALSE]

\* send_density that opens the port again when the session is offline
send_density_reconnecting(m, w, density, t, ok) ==
    IF t - m.last_send_time < send_interval
    THEN [mcu |-> m, wire |-> w, raised |-> FALSE]
    ELSE IF m.serial # "None" /\ ~m.demo_mode
         THEN [mcu |-> IF WriteOk(m, ok) THEN [m EXCEPT !.last_send_time = t] ELSE m,
               wire |-> Append(w, Frame("D", density, WriteOk(m, ok))),
               raised |-> FALSE]
         ELSE [mcu |-> [m EXCEPT !.serial = "open", !.demo_mode = FALSE],
               wire |-> w, raised |-> FALSE]

\* send_density that advances last_send_time whenever a write is tried
send_density_stamp_on_attempt(m, w, density, t, ok) ==
    IF t - m.last_send_time < send_interval
    THEN [mcu |-> m, wire |-> w, raised |-> FALSE]
    ELSE IF m.serial # "None" /\ ~m.demo_mode
         THEN [mcu |-> [m EXCEPT !.last_send_time = t],
               wire |-> Append(w, Frame("D", density, WriteOk(m, ok))),
               raised |-> FALSE]
         ELSE [mcu |-> m, wire |-> w, raised |-> FALSE]

\* send_density(density) at time t; ok is the fate of the write, if one is made
send_density(m, w, density, t, ok) ==
    IF t - m.last_send_time < send_interval
    THEN [mcu |-> m, wire |-> w, raised |-> FALSE]
    ELSE IF m.serial # "None" /\ ~m.demo_mode
         THEN [mcu |-> IF WriteOk(m, ok) THEN [m EXCEPT !.last_send_time = t] ELSE m,
               wire |-> Append(w, Frame("D", density, WriteOk(m, ok))),
               raised |-> FALSE]
         ELSE [mcu |-> m, wire |-> w, raised |-> FALSE]

\* set_mode that holds back when a density frame was the last thing written
set_mode_throttled(m, w, mode, ok) ==
    IF m.serial # "None" /\ ~m.demo_mode /\ (w = <<>> \/ Last(w).op # "D")
    THEN [mcu |-> m,
          wire |-> Append(w, Frame("M", mode, WriteOk(m, ok))),
          raised |-> FALSE]
    ELSE [mcu |-> m, wire |-> w, raised |-> FALSE]

\* set_mode(mode)
set_mode(m, w, mode, ok) ==
    IF m.serial # "None" /\ ~m.demo_mode
    THEN [mcu |-> m,
          wire |-> Append(w, Frame("M", mode, WriteOk(m, ok))),
          raised |-> FALSE]
    ELSE [mcu |-> m, wire |-> w, raised |-> FALSE]

\* disconnect(): serial.close() is outside any try; closing a closed port does nothing
disconnect(m, w, ok) ==
    IF m.serial = "open"
    THEN IF ok THEN [mcu |-> [m EXCEPT !.serial = "closed"], wire |-> w, raised |-> FALSE]
               ELSE [mcu |-> m, wire |-> w, raised |-> TRUE]
    ELSE [mcu |-> m, wire |-> w, raised |-> FALSE]

----------------------------------------------------------------------------
(* The session driven call by call: connect() once, then send_density and  *)
(* set_mode in any order as time passes; disconnect() at any point.         *)

\* no cursor position has been read in this pass
NoMouse == <<>>

AppIdle ==
    /\ pc = "start" /\ running = TRUE /\ haptic_mode = InitialMode
    /\ current_density = 0 /\ prev_density = 0 /\ seg_map = NoMap
    /\ shutdown_calls = 0 /\ exc = "none" /\ uncaught = FALSE
    /\ mouse = NoMouse

\* TissueAnalyzer.__init__; kmeans is not set before the first training
TissueAnalyzer ==
    [haptic_map |-> NoMap, image_width |-> 0, image_height |-> 0, trained |-> FALSE,
     kmeans |-> <<>>]

NoQuery == [op |-> "none", x |-> 0, y |-> 0, raised |-> FALSE, value |-> 0, result |-> ""]

\* SimpleKMeans.__init__; centroids None is <<>>.  data, rounds, error and pc
\* follow the fit() the object runs: pc is "new" before fit, "rounds" inside
\* the loop, "done" after return, "raised" after an exception.
SimpleKMeans(k, iters) ==
    [n_clusters |-> k, max_iters |-> iters, centroids |-> <<>>,
     data |-> <<>>, rounds |-> 0, error |-> "none", pc |-> "new"]

FitIdle == km = SimpleKMeans(n_clusters, max_iters)

\* connect() has not been called
HsIdle == hs = [pc |-> "idle", waited |-> 0, lines |-> 0]

\* current_density = 0, current_mode = "DIRECT"; no handler has run yet.  handler,
\* data and returned are the last socket handler called, the message data it
\* was given and what it returned
WebIdle ==
    web = [current_density |-> 0, current_mode |-> "DIRECT", handler |-> "none",
           data |-> <<>>, returned |-> <<"none">>]

LabIdle ==
    /\ analyzer = TissueAnalyzer
    /\ train_pc = "idle"
    /\ pixels = <<>>
    /\ old_map = NoMap
    /\ q = NoQuery

Init ==
    /\ mcu = MCUCommunicator
    /\ wire = <<>>
    /\ d_sent_at = <<>>
    /\ now = StartTime
    /\ raised = FALSE
    /\ first_call = -1
    /\ conn = "none"
    /\ AppIdle
    /\ LabIdle
    /\ FitIdle
    /\ WebIdle
    /\ HsIdle

Elapse ==
    \E k \in 0..2 :
        /\ now + k * TimeStep <= MaxTime
        /\ now' = now + k * TimeStep
        /\ UNCHANGED <<mcu, wire, d_sent_at, raised, first_call, conn>>

SessConnect ==
    \E outcome \in ConnectOutcomes :
        /\ conn = "none"
        /\ mcu' = connect(mcu, outcome)
        /\ conn' = outcome
        /\ raised' = FALSE
        /\ UNCHANGED <<wire, d_sent_at, now, first_call>>

SessSendDensity ==
    \E d \in Densities, ok \in BOOLEAN :
        LET r == send_density(mcu, wire, d, now, ok) IN
        /\ conn # "none"
        /\ Len(r.wire) <= MaxWire
        /\ mcu' = r.mcu
        /\ wire' = r.wire
        /\ d_sent_at' = Stamp(d_sent_at, wire, r.wire, now)
        /\ raised' = r.raised
        /\ first_call' = IF first_call = -1 THEN now ELSE first_call
        /\ UNCHANGED <<now, conn>>

SessSetMode ==
    \E mode \in {"DIRECT", "CUSTOM"}, ok \in BOOLEAN :
        LET r == set_mode(mcu, wire, mode, ok) IN
        /\ conn # "none"
        /\ Len(r.wire) <= MaxWire
        /\ mcu' = r.mcu
        /\ wire' = r.wire
        /\ raised' = r.raised
        /\ UNCHANGED <<d_sent_at, now, first_call, conn>>

SessDisconnect ==
    \E ok \in BOOLEAN :
        LET r == disconnect(mcu, wire, ok) IN
        /\ mcu' = r.mcu
        /\ wire' = r.wire
        /\ raised' = r.raised
        /\ UNCHANGED <<d_sent_at, now, first_call, conn>>

SessionNext ==
    \/ Elapse /\ UNCHANGED <<appVars, labVars, fitVars, webVars, hsVars>>
    \/ SessConnect /\ UNCHANGED <<appVars, labVars, fitVars, webVars, hsVars>>
    \/ SessSendDensity /\ UNCHANGED <<appVars, labVars, fitVars, webVars, hsVars>>
    \/ SessSetMode /\ UNCHANGED <<appVars, labVars, fitVars, webVars, hsVars>>
    \/ SessDisconnect /\ UNCHANGED <<appVars, labVars, fitVars, webVars, hsVars>>

SpecSession == Init /\ [][SessionNext]_vars

----------------------------------------------------------------------------
(* connect() statement by statement: the port is opened, then the loop      *)
(* polls for the ready token until handshake_window seconds have passed.    *)
(* Once connect() has returned, set_mode and disconnect may be called.      *)

\* serial.Serial(...): ok says whether the endpoint opens
HsOpen(ok) ==
    /\ hs.pc = "idle" /\ conn = "none"
    /\ IF ok
       THEN /\ mcu' = [mcu EXCEPT !.serial = "open"]
            /\ hs' = [hs EXCEPT !.pc = "waiting"]
            /\ conn' = conn
       ELSE /\ mcu' = connect(mcu, "open_fail")
            /\ hs' = [hs EXCEPT !.pc = "done"]
            /\ conn' = "open_fail"
    /\ raised' = FALSE
    /\ UNCHANGED <<wire, d_sent_at, now, first_call>>

\* one pass of the while loop, the window not yet over.  inp is what the port
\* holds: "nothing" (in_waiting is 0), "MCU_READY", "line" (any other line),
\* or "read_fail" (in_waiting or readline raises)
HsPoll(inp) ==
    /\ hs.pc = "waiting" /\ hs.waited < handshake_window
    /\ CASE inp = "nothing" -> UNCHANGED <<mcu, conn, hs>>
         [] inp = "line" ->
              /\ hs.lines < MaxLines
              /\ hs' = [hs EXCEPT !.lines = hs.lines + 1]
              /\ UNCHANGED <<mcu, conn>>
         [] inp = "MCU_READY" ->
              /\ mcu' = connect(mcu, "ready")
              /\ conn' = "ready"
              /\ hs' = [hs EXCEPT !.pc = "done"]
         [] inp = "read_fail" ->
              /\ mcu' = connect(mcu, "read_fail")
              /\ conn' = "read_fail"
              /\ hs' = [hs EXCEPT !.pc = "done"]
    /\ UNCHANGED <<wire, d_sent_at, now, raised, first_call>>

\* a second passes while connect() polls or blocks in readline
HsTick ==
    /\ hs.pc = "waiting" /\ hs.waited < handshake_window
    /\ hs' = [hs EXCEPT !.waited = hs.waited + 1]
    /\ UNCHANGED sessionVars

\* the loop test fails: time.time() - start_time >= 3; connect() returns True
HsTimeout ==
    /\ hs.pc = "waiting" /\ hs.waited >= handshake_window
    /\ mcu' = connect(mcu, "timeout")
    /\ conn' = "timeout"
    /\ hs' = [hs EXCEPT !.pc = "done"]
    /\ UNCHANGED <<wire, d_sent_at, now, raised, first_call>>

HsInputs == {"nothing", "line", "MCU_READY", "read_fail"}

HsTickStep == HsTick /\ UNCHANGED <<appVars, labVars, fitVars, webVars>>
HsTimeoutStep == HsTimeout /\ UNCHANGED <<appVars, labVars, fitVars, webVars>>

HandshakeNext ==
    \/ \E ok \in BOOLEAN :
          HsOpen(ok) /\ UNCHANGED <<appVars, labVars, fitVars, webVars>>
    \/ \E inp \in HsInputs :
          HsPoll(inp) /\ UNCHANGED <<appVars, labVars, fitVars, webVars>>
    \/ HsTickStep
    \/ HsTimeoutStep
    \/ hs.pc = "done" /\ SessSetMode /\ UNCHANGED <<appVars, labVars, fitVars, webVars, hsVars>>
    \/ hs.pc = "done" /\ SessDisconnect /\ UNCHANGED <<appVars, labVars, fitVars, webVars, hsVars>>

\* time passes while connect() waits, and the loop test is made again
SpecHandshake ==
    Init /\ [][HandshakeNext]_vars /\ WF_vars(HsTickStep) /\ WF_vars(HsTimeoutStep)

----------------------------------------------------------------------------
(* Claims about the session *)

\* C1: the delivered density frames are at least one send interval apart, so
\* over the time T since the first send_density call there are at most
\* T \div send_interval + 1 of them.
C1_RateLimit ==
    /\ Len(d_sent_at) = Len(DFrames(wire))
    /\ \A i \in 1..(Len(d_sent_at) - 1) :
           d_sent_at[i + 1] - d_sent_at[i] >= send_interval
    /\ first_call # -1 =>
           Len(d_sent_at) <= ((now - first_call) \div send_interval) + 1

\* two density frames went out exactly one interval apart, and the clock has moved on
C1_Witness ==
    /\ Len(d_sent_at) = 2
    /\ d_sent_at[2] - d_sent_at[1] = send_interval
    /\ now > d_sent_at[2]

C32_Step ==
    IF Len(wire') > Len(wire) /\ Last(wire').op = "D" /\ Last(wire').ok
    THEN mcu'.last_send_time = now
    ELSE mcu'.last_send_time = mcu.last_send_time

\* C32: last_send_time moves, to the time of the call, exactly when a density
\* write succeeds; a call dropped by the limiter, a call made offline and a
\* call whose write fails leave it as it was, and so does every other
\* operation of the session.
C32_StampOnSuccess == [][C32_Step]_vars

\* a density write failed and the next call, made at the same instant, was
\* not held back by the limiter: its frame was delivered and stamped
C32_Witness ==
    /\ Len(wire) = 2
    /\ wire[1].op = "D" /\ ~wire[1].ok
    /\ wire[2].op = "D" /\ wire[2].ok
    /\ d_sent_at = <<first_call>>
    /\ mcu.last_send_time = first_call

\* C4 (as claimed): a failed write on a connected session puts the session
\* offline, and no write is attempted after it.
C4_Claim ==
    mcu.serial = "open" =>
        \A i \in 1..Len(wire) : ~wire[i].ok => (mcu.demo_mode /\ i = Len(wire))

\* C5: when connect() could not open the endpoint the session is in demo mode
\* and no call of send_density or set_mode writes to the port, then or later.
C5_OfflineNoWrite ==
    conn = "open_fail" => (mcu.demo_mode /\ mcu.serial = "None" /\ wire = <<>>)

\* the endpoint did not open, and send_density has been called since, a full
\* interval after the program started
C5_Witness ==
    conn = "open_fail" /\ first_call # -1 /\ now - first_call >= send_interval

\* C17 (as claimed): from every state of the session, connected or never
\* connected, disconnect() returns normally and leaves the port released, and a
\* second disconnect() returns normally and changes nothing.
C17_Claim ==
    \A ok1 \in BOOLEAN, ok2 \in BOOLEAN :
        LET r1 == disconnect(mcu, wire, ok1)
            r2 == disconnect(r1.mcu, r1.wire, ok2)
        IN /\ ~r1.raised /\ ~r2.raised
           /\ r1.mcu.serial # "open"
           /\ r2.mcu = r1.mcu /\ r2.wire = r1.wire

C23_Step ==
    /\ \A mode \in Modes, ok \in BOOLEAN :
          LET r == set_mode(mcu, wire, mode, ok) IN
          /\ r.mcu.last_send_time = mcu.last_send_time
          /\ (mcu.serial # "None" /\ ~mcu.demo_mode) =>
                (Len(r.wire) = Len(wire) + 1 /\ Last(r.wire).op = "M")
    /\ (Len(wire') > Len(wire) /\ Last(wire').op = "M") =>
          (Len(wire') = Len(wire) + 1 /\ mcu'.last_send_time = mcu.last_send_time)

\* C23: set_mode is not rate-limited: on a connected session every call
\* attempts exactly one M frame, however soon after the previous write, and
\* it leaves last_send_time as it was.
C23_ModeNotLimited == [][C23_Step]_vars

\* a density frame went out at this very instant and a mode frame was written
\* right after it; last_send_time is still the time of the density frame
C23_Witness ==
    /\ Len(wire) >= 2
    /\ wire[Len(wire) - 1].op = "D" /\ wire[Len(wire) - 1].ok
    /\ Last(wire).op = "M" /\ Last(wire).ok
    /\ d_sent_at # <<>> /\ Last(d_sent_at) = now
    /\ mcu.last_send_time = now

C24_Safe ==
    /\ hs.pc = "waiting" => (conn = "none" /\ mcu.serial = "open" /\ ~mcu.demo_mode)
    /\ (hs.pc = "done" /\ conn \in {"ready", "timeout"}) =>
          (mcu.serial # "None" /\ ~mcu.demo_mode)
    /\ conn = "timeout" => hs.waited >= handshake_window
    /\ conn = "ready" => hs.waited < handshake_window

\* C24: once the endpoint has opened, connect() returns, and it returns with
\* the session connected and not in demo mode both when MCU_READY is read and
\* when the window passes without it; lines other than MCU_READY neither end
\* the wait before the window is over nor put the session offline.
C24_Handshake == [](C24_Safe) /\ ((hs.pc = "waiting") ~> (hs.pc = "done"))

\* connect() has returned after the full window, having read only lines that
\* are not the ready token, and the session is connected
C24_Witness ==
    /\ hs.pc = "done" /\ conn = "timeout"
    /\ hs.lines >= 1 /\ hs.waited = handshake_window
    /\ mcu.serial = "open" /\ ~mcu.demo_mode

\* C7 (as claimed): no call of the session lets an exception escape.
C7_Claim == raised = FALSE

----------------------------------------------------------------------------
(* TissueSegmenter *)

\* haptic values that leave the byte range at the top
Level_overdriven(i) == i * 128

Level(i) == CASE i = 0 -> 0 [] i = 1 -> 80 [] i = 2 -> 255

\* train(): the labels come from sklearn's KMeans, which is not part of the
\* repository; the outcome is a display-size map of the three haptic values.
\* The maps tried are the slanted band patterns over the three levels, one per
\* level at the origin.
BandMap(s) ==
    [y \in 1..DispH |-> [x \in 1..DispW |-> Level(((x - 1) + 2 * (y - 1) + s) % 3)]]

train == {BandMap(s) : s \in 0..2}

\* get_haptic_value(x, y): 0-based coordinates into the rows [y][x]
get_haptic_value(hm, x, y) ==
    IF hm = NoMap THEN 0
    ELSE LET h == Len(hm)
             w == Len(hm[1])
         IN IF 0 <= y /\ y < h /\ 0 <= x /\ x < w THEN hm[y + 1][x + 1] ELSE 0

----------------------------------------------------------------------------
(* HapticHistologyScanner *)

Events == {"none", "QUIT", "K_ESCAPE", "K_1", "K_2", "K_3", "K_4"}

KeyMode(ev) ==
    CASE ev = "K_1" -> "DIRECT"
      [] ev = "K_2" -> "TEXTURE"
      [] ev = "K_3" -> "TUMOR_LOCK"
      [] ev = "K_4" -> "EDGE_DETECT"

\* The scanner's fields and the session it owns, as one value the methods map.
Scanner ==
    [mcu |-> mcu, wire |-> wire, running |-> running, haptic_mode |-> haptic_mode,
     current_density |-> current_density, prev_density |-> prev_density,
     raised |-> FALSE]

\* _set_haptic_mode that records the mode only when the session takes the frame
_set_haptic_mode_if_online(s, mode, ok) ==
    LET r == set_mode(s.mcu, s.wire, mode, ok) IN
    [s EXCEPT !.haptic_mode = IF r.wire # s.wire THEN mode ELSE s.haptic_mode,
              !.mcu = r.mcu, !.wire = r.wire, !.raised = r.raised]

\* _set_haptic_mode that records the mode only once the frame is delivered
_set_haptic_mode_on_delivery(s, mode, ok) ==
    LET r == set_mode(s.mcu, s.wire, mode, ok) IN
    [s EXCEPT !.haptic_mode = IF r.wire # s.wire /\ Last(r.wire).ok THEN mode
                              ELSE s.haptic_mode,
              !.mcu = r.mcu, !.wire = r.wire, !.raised = r.raised]

\* _set_haptic_mode(mode)
_set_haptic_mode(s, mode, ok) ==
    LET r == set_mode(s.mcu, s.wire, mode, ok) IN
    [s EXCEPT !.haptic_mode = mode, !.mcu = r.mcu, !.wire = r.wire, !.raised = r.raised]

\* handle_input() with one pending event, or none
handle_input(s, ev, ok) ==
    CASE ev = "none" -> s
      [] ev \in {"QUIT", "K_ESCAPE"} -> [s EXCEPT !.running = FALSE]
      [] OTHER -> _set_haptic_mode(s, KeyMode(ev), ok)

\* process_haptic_feedback that zeroes the density when the cursor leaves the image
process_haptic_feedback_zero_outside(s, hm, mouse_x, mouse_y, t, ok) ==
    IF ~(0 <= mouse_x /\ mouse_x < DispW /\ 0 <= mouse_y /\ mouse_y < DispH)
    THEN [s EXCEPT !.prev_density = s.current_density, !.current_density = 0]
    ELSE LET d == get_haptic_value(hm, mouse_x, mouse_y)
             r == send_density(s.mcu, s.wire, d, t, ok)
         IN [s EXCEPT !.prev_density = s.current_density, !.current_density = d,
                      !.mcu = r.mcu, !.wire = r.wire, !.raised = r.raised]

\* process_haptic_feedback that drives an edge to full density in EDGE_DETECT
process_haptic_feedback_edge_boost(s, hm, mouse_x, mouse_y, t, ok) ==
    IF ~(0 <= mouse_x /\ mouse_x < DispW /\ 0 <= mouse_y /\ mouse_y < DispH)
    THEN s
    ELSE LET v == get_haptic_value(hm, mouse_x, mouse_y)
             gradient == IF v >= s.current_density THEN v - s.current_density
                         ELSE s.current_density - v
             d == IF s.haptic_mode = "EDGE_DETECT" /\ gradient > edge_detection_threshold
                  THEN Level(2) ELSE v
             r == send_density(s.mcu, s.wire, d, t, ok)
         IN [s EXCEPT !.prev_density = s.current_density, !.current_density = d,
                      !.mcu = r.mcu, !.wire = r.wire, !.raised = r.raised]

\* process_haptic_feedback that locks onto the densest tissue by itself
process_haptic_feedback_auto_lock(s, hm, mouse_x, mouse_y, t, ok) ==
    IF ~(0 <= mouse_x /\ mouse_x < DispW /\ 0 <= mouse_y /\ mouse_y < DispH)
    THEN s
    ELSE LET d == get_haptic_value(hm, mouse_x, mouse_y)
             r == send_density(s.mcu, s.wire, d, t, ok)
         IN [s EXCEPT !.prev_density = s.current_density, !.current_density = d,
                      !.haptic_mode = IF d = Level(2) THEN "TUMOR_LOCK" ELSE s.haptic_mode,
                      !.mcu = r.mcu, !.wire = r.wire, !.raised = r.raised]

\* process_haptic_feedback(mouse_x, mouse_y) at time t; the image has the display size
process_haptic_feedback(s, hm, mouse_x, mouse_y, t, ok) ==
    IF ~(0 <= mouse_x /\ mouse_x < DispW /\ 0 <= mouse_y /\ mouse_y < DispH)
    THEN s
    ELSE LET d == get_haptic_value(hm, mouse_x, mouse_y)
             r == send_density(s.mcu, s.wire, d, t, ok)
         IN [s EXCEPT !.prev_density = s.current_density, !.current_density = d,
                      !.mcu = r.mcu, !.wire = r.wire, !.raised = r.raised]

\* shutdown(): disconnect, then pygame.quit(); fault is what is raised after the
\* disconnect ("none", or the kind of exception)
shutdown(m, w, closeOk, fault) ==
    LET r == disconnect(m, w, closeOk) IN
    [mcu |-> r.mcu, wire |-> r.wire,
     exc |-> IF r.raised THEN "Exception" ELSE fault]

Faults == {"none", "Exception", "KeyboardInterrupt"}

----------------------------------------------------------------------------
(* main(): run() = initialize(), the loop, shutdown(); the two except       *)
(* branches of main call shutdown().                                        *)

\* initialize() that sets the mode before the port is opened
Initialize_mode_before_connect(hm, outcome, ok, at, kind) ==
    /\ pc = "start"
    /\ IF at = "train"
       THEN /\ pc' = "except" /\ exc' = kind
            /\ UNCHANGED <<mcu, wire, conn, seg_map>>
       ELSE LET r == set_mode(mcu, wire, haptic_mode, ok)
                m1 == connect(r.mcu, outcome)
            IN /\ seg_map' = hm
               /\ conn' = outcome
               /\ mcu' = m1
               /\ wire' = r.wire
               /\ IF r.raised THEN pc' = "except" /\ exc' = "Exception"
                  ELSE IF at = "pygame" THEN pc' = "except" /\ exc' = kind
                  ELSE pc' = "loop" /\ exc' = "none"
    /\ UNCHANGED <<d_sent_at, now, raised, first_call, running, haptic_mode,
                   current_density, prev_density, shutdown_calls, uncaught, mouse>>

\* initialize(): load and train, connect, set the configured mode, start pygame.
\* at = "train": load/resize/train raises; at = "pygame": pygame start-up raises.
Initialize(hm, outcome, ok, at, kind) ==
    /\ pc = "start"
    /\ IF at = "train"
       THEN /\ pc' = "except" /\ exc' = kind
            /\ UNCHANGED <<mcu, wire, conn, seg_map>>
       ELSE LET m1 == connect(mcu, outcome)
                r == set_mode(m1, wire, haptic_mode, ok)
            IN /\ seg_map' = hm
               /\ conn' = outcome
               /\ mcu' = r.mcu
               /\ wire' = r.wire
               /\ IF r.raised THEN pc' = "except" /\ exc' = "Exception"
                  ELSE IF at = "pygame" THEN pc' = "except" /\ exc' = kind
                  ELSE pc' = "loop" /\ exc' = "none"
    /\ UNCHANGED <<d_sent_at, now, raised, first_call, running, haptic_mode,
                   current_density, prev_density, shutdown_calls, uncaught, mouse>>

\* The cursor positions tried: every pixel, and a position off the left and
\* one off the bottom edge
MousePositions ==
    {<<x, y>> : x \in 0..(DispW - 1), y \in 0..(DispH - 1)}
        \cup {<<-1, 0>>, <<0, DispH>>}

\* The body of the while loop, statement by statement: pc = "loop" is the loop
\* test, "feedback" is before process_haptic_feedback, "render" before render.

\* handle_input() with one pending event or none; fault is what
\* pygame.event.get raises, or the user's interrupt ("none": nothing)
HandleInput(ev, ok, fault) ==
    LET s1 == handle_input(Scanner, ev, ok) IN
    /\ pc = "loop" /\ running
    /\ IF fault # "none"
       THEN /\ pc' = "except" /\ exc' = fault
            /\ UNCHANGED <<mcu, wire, running, haptic_mode>>
       ELSE /\ Len(s1.wire) <= MaxAppWire
            /\ mcu' = s1.mcu
            /\ wire' = s1.wire
            /\ running' = s1.running
            /\ haptic_mode' = s1.haptic_mode
            /\ IF s1.raised THEN pc' = "except" /\ exc' = "Exception"
               ELSE pc' = "feedback" /\ exc' = "none"
    /\ UNCHANGED <<d_sent_at, now, raised, first_call, conn, current_density,
                   prev_density, seg_map, shutdown_calls, uncaught, mouse>>

\* mouse_x, mouse_y = pygame.mouse.get_pos(); process_haptic_feedback(mouse_x, mouse_y)
ProcessHapticFeedback(mouse_x, mouse_y, ok) ==
    LET s2 == process_haptic_feedback(Scanner, seg_map, mouse_x, mouse_y, now, ok) IN
    /\ pc = "feedback"
    /\ Len(s2.wire) <= MaxAppWire
    /\ mcu' = s2.mcu
    /\ wire' = s2.wire
    /\ d_sent_at' = Stamp(d_sent_at, wire, s2.wire, now)
    /\ current_density' = s2.current_density
    /\ prev_density' = s2.prev_density
    /\ haptic_mode' = s2.haptic_mode
    /\ IF s2.raised THEN pc' = "except" /\ exc' = "Exception"
       ELSE pc' = "render" /\ exc' = "none"
    /\ mouse' = <<mouse_x, mouse_y>>
    /\ UNCHANGED <<now, raised, first_call, conn, running, seg_map,
                   shutdown_calls, uncaught>>

\* render(), update_fps(), clock.tick(target_fps): k time steps pass; fault is
\* what render raises, or the user's interrupt
Render(k, fault) ==
    /\ pc = "render"
    /\ now + k * TimeStep <= MaxTime
    /\ IF fault # "none"
       THEN pc' = "except" /\ exc' = fault /\ now' = now
       ELSE pc' = "loop" /\ exc' = "none" /\ now' = now + k * TimeStep
    /\ mouse' = NoMouse
    /\ UNCHANGED <<mcu, wire, d_sent_at, raised, first_call, conn, running,
                   haptic_mode, current_density, prev_density, seg_map,
                   shutdown_calls, uncaught>>

\* run(): the loop has ended, shutdown() is called
RunShutdown(closeOk, fault) ==
    LET r == shutdown(mcu, wire, closeOk, fault) IN
    /\ pc = "loop" /\ ~running
    /\ shutdown_calls' = shutdown_calls + 1
    /\ mcu' = r.mcu
    /\ wire' = r.wire
    /\ exc' = r.exc
    /\ pc' = IF r.exc = "none" THEN "exited" ELSE "except"
    /\ UNCHANGED <<d_sent_at, now, raised, first_call, conn, running, haptic_mode,
                   current_density, prev_density, seg_map, uncaught, mouse>>

\* main(): except KeyboardInterrupt / except Exception: app.shutdown()
MainExcept(closeOk, fault) ==
    LET r == shutdown(mcu, wire, closeOk, fault) IN
    /\ pc = "except"
    /\ shutdown_calls' = shutdown_calls + 1
    /\ mcu' = r.mcu
    /\ wire' = r.wire
    /\ exc' = r.exc
    /\ uncaught' = (r.exc # "none")
    /\ pc' = "exited"
    /\ UNCHANGED <<d_sent_at, now, raised, first_call, conn, running, haptic_mode,
                   current_density, prev_density, seg_map, mouse>>

\* the fate of a write is an input only where a write is made
Fates(m) == IF m.serial # "None" /\ ~m.demo_mode THEN BOOLEAN ELSE {TRUE}

Next ==
    \/ \E hm \in train, outcome \in ConnectOutcomes, ok \in BOOLEAN,
          at \in {"none", "train", "pygame"}, kind \in {"Exception"} :
          Initialize(hm, outcome, ok, at, kind) /\ UNCHANGED <<labVars, fitVars, webVars, hsVars>>
    \/ \E ev \in Events, ok \in Fates(mcu), fault \in {"none", "KeyboardInterrupt"} :
          HandleInput(ev, ok, fault) /\ UNCHANGED <<labVars, fitVars, webVars, hsVars>>
    \/ \E pos \in MousePositions, ok \in Fates(mcu) :
          ProcessHapticFeedback(pos[1], pos[2], ok) /\ UNCHANGED <<labVars, fitVars, webVars, hsVars>>
    \/ \E k \in 0..2, fault \in {"none", "Exception"} :
          Render(k, fault) /\ UNCHANGED <<labVars, fitVars, webVars, hsVars>>
    \/ \E closeOk \in BOOLEAN, fault \in {"none", "Exception"} :
          RunShutdown(closeOk, fault) /\ UNCHANGED <<labVars, fitVars, webVars, hsVars>>
    \/ \E closeOk \in BOOLEAN, fault \in {"none", "Exception"} :
          MainExcept(closeOk, fault) /\ UNCHANGED <<labVars, fitVars, webVars, hsVars>>

Spec == Init /\ [][Next]_vars

----------------------------------------------------------------------------
(* SimpleKMeans (app-lab version).  Centroids are Python floats; here they  *)
(* are exact fractions <<numerator, denominator>> in lowest terms.          *)

Abs(n) == IF n < 0 THEN -n ELSE n

RECURSIVE GCD(_, _)
GCD(a, b) == IF b = 0 THEN a ELSE GCD(b, a % b)

Rat(n, d) ==
    LET g == GCD(Abs(n), d) IN
    IF g = 0 THEN <<0, 1>> ELSE <<n \div g, d \div g>>

RatLess(a, b) == a[1] * b[2] < b[1] * a[2]

RECURSIVE SumSeq(_)
SumSeq(sq) == IF sq = <<>> THEN 0 ELSE sq[1] + SumSeq(Tail(sq))

MinOf(sq) == CHOOSE v \in {sq[i] : i \in 1..Len(sq)} : \A i \in 1..Len(sq) : v <= sq[i]
MaxOf(sq) == CHOOSE v \in {sq[i] : i \in 1..Len(sq)} : \A i \in 1..Len(sq) : v >= sq[i]

\* distances.index(min(distances)): the first index of a least distance, 0-based
IndexOfMin(ds) ==
    (CHOOSE i \in 1..Len(ds) :
        /\ \A j \in 1..Len(ds) : ~RatLess(ds[j], ds[i])
        /\ \A j \in 1..(i - 1) : RatLess(ds[i], ds[j])) - 1

\* predict(value): abs(value - c) for every centroid c, then the index of the least
predict(centroids, value) ==
    IndexOfMin([i \in 1..Len(centroids) |->
                   Rat(Abs(value * centroids[i][2] - centroids[i][1]), centroids[i][2])])

\* initial centroids that all sit on min_val
InitialCentroids_at_min(data, k) == [i \in 1..k |-> <<MinOf(data), 1>>]

\* the initial centroids: min_val + i * step, step = (max_val - min_val) / (n_clusters - 1)
InitialCentroids(data, k) ==
    [i \in 1..k |->
        Rat(MinOf(data) * (k - 1) + (i - 1) * (MaxOf(data) - MinOf(data)), k - 1)]

\* a round in which a centroid with no values falls to 0
Round_empty_to_zero(centroids, data) ==
    [i \in 1..Len(centroids) |->
        LET cluster == SelectSeq(data, LAMBDA v : predict(centroids, v) = i - 1)
        IN IF Len(cluster) > 0 THEN Rat(SumSeq(cluster), Len(cluster))
           ELSE <<0, 1>>]

\* one round: assign every value to its nearest centroid, then take the means;
\* a centroid with no values keeps its place
Round(centroids, data) ==
    [i \in 1..Len(centroids) |->
        LET cluster == SelectSeq(data, LAMBDA v : predict(centroids, v) = i - 1)
        IN IF Len(cluster) > 0 THEN Rat(SumSeq(cluster), Len(cluster))
           ELSE centroids[i]]

RECURSIVE Rounds(_, _, _)
Rounds(centroids, data, n) ==
    IF n = 0 THEN centroids ELSE Rounds(Round(centroids, data), data, n - 1)

\* list.sort() turned around: descending
RECURSIVE InsertRatDescending(_, _)
InsertRatDescending(c, sorted) ==
    IF sorted = <<>> THEN <<c>>
    ELSE IF RatLess(sorted[1], c) THEN <<c>> \o sorted
         ELSE <<sorted[1]>> \o InsertRatDescending(c, Tail(sorted))

RECURSIVE SortRatsDescending(_)
SortRatsDescending(cs) ==
    IF cs = <<>> THEN <<>> ELSE InsertRatDescending(cs[1], SortRatsDescending(Tail(cs)))

\* list.sort(), ascending
RECURSIVE InsertRat(_, _)
InsertRat(c, sorted) ==
    IF sorted = <<>> THEN <<c>>
    ELSE IF RatLess(c, sorted[1]) THEN <<c>> \o sorted
         ELSE <<sorted[1]>> \o InsertRat(c, Tail(sorted))

RECURSIVE SortRats(_)
SortRats(cs) == IF cs = <<>> THEN <<>> ELSE InsertRat(cs[1], SortRats(Tail(cs)))

\* fit(data): the sorted centroids
fit(data, k, iters) == SortRats(Rounds(InitialCentroids(data, k), data, iters))

----------------------------------------------------------------------------
(* SimpleKMeans.fit, statement by statement, on any data and any n_clusters *)

\* the intensities the data lists are drawn from
Intensities == {20, 80, 150, 240}

RECURSIVE SeqsUpTo(_, _)
SeqsUpTo(S, n) ==
    IF n = 0 THEN {<<>>}
    ELSE LET shorter == SeqsUpTo(S, n - 1)
         IN shorter \cup {Append(sq, v) : sq \in shorter, v \in S}

DataLists == SeqsUpTo(Intensities, MaxData)
ClusterCounts == 0..MaxClusters
IterChoices == {0, 1, max_iters}

\* lines 35-37: min(data), max(data) raise ValueError on an empty list; the
\* division by n_clusters - 1 raises ZeroDivisionError when n_clusters is 1
fit_init(data, k) ==
    IF data = <<>> THEN [error |-> "ValueError", centroids |-> <<>>]
    ELSE IF k = 1 THEN [error |-> "ZeroDivisionError", centroids |-> <<>>]
    ELSE IF k < 1 THEN [error |-> "none", centroids |-> <<>>]
    ELSE [error |-> "none", centroids |-> InitialCentroids(data, k)]

\* lines 41-55, one pass of the loop: min(distances) raises ValueError when
\* there is no centroid
fit_round(centroids, data) ==
    IF centroids = <<>> THEN [error |-> "ValueError", centroids |-> centroids]
    ELSE [error |-> "none", centroids |-> Round(centroids, data)]

\* SimpleKMeans(n_clusters=k, max_iters=iters)
NewKMeans(k, iters) ==
    /\ km.pc \in {"new", "done", "raised"}
    /\ km' = SimpleKMeans(k, iters)

\* fit(data) up to the loop
FitBegin(data) ==
    LET r == fit_init(data, km.n_clusters) IN
    /\ km.pc = "new"
    /\ km' = [km EXCEPT !.data = data, !.centroids = r.centroids, !.error = r.error,
                        !.pc = IF r.error = "none" THEN "rounds" ELSE "raised"]

\* one pass of for _ in range(max_iters)
FitRound ==
    LET r == fit_round(km.centroids, km.data) IN
    /\ km.pc = "rounds"
    /\ km.rounds < km.max_iters
    /\ km' = [km EXCEPT !.centroids = r.centroids, !.error = r.error,
                        !.rounds = km.rounds + 1,
                        !.pc = IF r.error = "none" THEN "rounds" ELSE "raised"]

\* a fit that leaves the loop as soon as a round changes nothing
FitSort_on_convergence ==
    /\ km.pc = "rounds"
    /\ \/ km.rounds >= km.max_iters
       \/ km.centroids # <<>> /\ Round(km.centroids, km.data) = km.centroids
    /\ km' = [km EXCEPT !.centroids = SortRats(km.centroids), !.pc = "done"]

\* the loop is over: self.centroids.sort(); return self
FitSort ==
    /\ km.pc = "rounds"
    /\ km.rounds >= km.max_iters
    /\ km' = [km EXCEPT !.centroids = SortRats(km.centroids), !.pc = "done"]

FitNext ==
    \/ \E k \in ClusterCounts, iters \in IterChoices :
          NewKMeans(k, iters) /\ UNCHANGED <<sessionVars, appVars, labVars, webVars, hsVars>>
    \/ \E data \in DataLists :
          FitBegin(data) /\ UNCHANGED <<sessionVars, appVars, labVars, webVars, hsVars>>
    \/ FitRound /\ UNCHANGED <<sessionVars, appVars, labVars, webVars, hsVars>>
    \/ FitSort /\ UNCHANGED <<sessionVars, appVars, labVars, webVars, hsVars>>

SpecFit == Init /\ [][FitNext]_vars

----------------------------------------------------------------------------
(* TissueAnalyzer (app-lab version) *)

\* the density table upside down
cluster_to_density_reversed(cluster) ==
    CASE cluster = 0 -> 255 [] cluster = 1 -> 128 [] cluster = 2 -> 0

cluster_to_density(cluster) ==
    CASE cluster = 0 -> 0 [] cluster = 1 -> 128 [] cluster = 2 -> 255

Band(i) == CASE i = 0 -> 20 [] i = 1 -> 150 [] i = 2 -> 240

\* The images tried, as the pixel list of the resized grayscale image (row by
\* row): slanted bands of three intensities, and a uniform image.  BadImage
\* stands for data that Image.open cannot decode: it yields no pixels.
BandImage(s) ==
    [idx \in 1..(LabW * LabH) |->
        Band((((idx - 1) % LabW) + 2 * ((idx - 1) \div LabW) + s) % 3)]

UniformImage(v) == [idx \in 1..(LabW * LabH) |-> v]

\* a ramp from black to white, one step per pixel
RampImage ==
    [idx \in 1..(LabW * LabH) |-> ((idx - 1) * 255) \div (LabW * LabH - 1)]

Images == {BandImage(s) : s \in 0..2} \cup {UniformImage(80), RampImage}

BadImage == <<>>

\* one row of the haptic map: the density of the cluster of every pixel of row y (0-based)
HapticRow(px, centroids, w, y) ==
    [x \in 1..w |-> cluster_to_density(predict(centroids, px[y * w + (x - 1) + 1]))]

\* load_and_train, statement by statement
\* lines 85-100: decode, convert, resize, set the size, list the pixels, fit
train_fit(an, px) ==
    [an EXCEPT !.image_width = LabW, !.image_height = LabH,
               !.kmeans = fit(px, n_clusters, max_iters)]

\* line 111: self.haptic_map = []
train_reset(an) == [an EXCEPT !.haptic_map = <<>>]

\* lines 112-120, one pass of the outer loop: the next row is appended
train_row(an, px) ==
    [an EXCEPT !.haptic_map =
        Append(an.haptic_map, HapticRow(px, an.kmeans, an.image_width, Len(an.haptic_map)))]

\* line 122: self.trained = True
train_done(an) == [an EXCEPT !.trained = TRUE]

RECURSIVE train_rows(_, _)
train_rows(an, px) ==
    IF Len(an.haptic_map) >= an.image_height THEN an
    ELSE train_rows(train_row(an, px), px)

\* load_and_train that drops the installed map when the data is bad
load_and_train_clearing(an, image) ==
    IF image = BadImage
    THEN [analyzer |-> [an EXCEPT !.haptic_map = NoMap, !.trained = FALSE], result |-> "error"]
    ELSE [analyzer |-> train_done(train_rows(train_reset(train_fit(an, image)), image)),
          result |-> "success"]

\* load_and_train(image_data) as a whole: bad data raises before anything is
\* assigned, and the except branch returns an error string
load_and_train(an, image) ==
    IF image = BadImage THEN [analyzer |-> an, result |-> "error"]
    ELSE [analyzer |-> train_done(train_rows(train_reset(train_fit(an, image)), image)),
          result |-> "success"]

Min2(a, b) == IF a < b THEN a ELSE b
Max2(a, b) == IF a > b THEN a ELSE b

\* get_density_at without the test of trained and of the map
get_density_at_unguarded(an, x, y) ==
    LET cx == Max2(0, Min2(x, an.image_width - 1))
        cy == Max2(0, Min2(y, an.image_height - 1))
    IN IF cy + 1 \in DOMAIN an.haptic_map /\ cx + 1 \in DOMAIN an.haptic_map[cy + 1]
       THEN [raised |-> FALSE, value |-> an.haptic_map[cy + 1][cx + 1]]
       ELSE [raised |-> TRUE, value |-> 0]

\* get_density_at(x, y): a row that is not there is an IndexError
get_density_at(an, x, y) ==
    IF ~an.trained \/ an.haptic_map = NoMap
    THEN [raised |-> FALSE, value |-> 0]
    ELSE LET cx == Max2(0, Min2(x, an.image_width - 1))
             cy == Max2(0, Min2(y, an.image_height - 1))
         IN IF cy + 1 \in DOMAIN an.haptic_map /\ cx + 1 \in DOMAIN an.haptic_map[cy + 1]
            THEN [raised |-> FALSE, value |-> an.haptic_map[cy + 1][cx + 1]]
            ELSE [raised |-> TRUE, value |-> 0]

\* int(): truncation toward zero of the fraction n/d
IntTrunc(n, d) == IF n >= 0 THEN n \div d ELSE -((-n) \div d)

\* get_density_normalized that scales onto the last pixel, width - 1 and height - 1
get_density_normalized_to_last(an, xn, yn) ==
    IF ~an.trained THEN [raised |-> FALSE, value |-> 0]
    ELSE get_density_at(an, IntTrunc(xn * (an.image_width - 1), NormDen),
                            IntTrunc(yn * (an.image_height - 1), NormDen))

\* get_density_normalized(x_norm, y_norm) with x_norm = xn/NormDen, y_norm = yn/NormDen
get_density_normalized(an, xn, yn) ==
    IF ~an.trained THEN [raised |-> FALSE, value |-> 0]
    ELSE get_density_at(an, IntTrunc(xn * an.image_width, NormDen),
                            IntTrunc(yn * an.image_height, NormDen))

----------------------------------------------------------------------------
(* The analyzer, one call at a time: load_image, get_density, get_density_norm *)

LoadImage(image) ==
    /\ analyzer' = load_and_train(analyzer, image).analyzer
    /\ q' = [NoQuery EXCEPT !.op = "load", !.result = load_and_train(analyzer, image).result]
    /\ pixels' = IF image = BadImage THEN pixels ELSE image
    /\ UNCHANGED <<train_pc, old_map>>

\* get_density that forgets the training once it has answered
GetDensity_forgetting(x, y) ==
    LET r == get_density_at(analyzer, x, y) IN
    /\ q' = [op |-> "at", x |-> x, y |-> y, raised |-> r.raised, value |-> r.value,
             result |-> ""]
    /\ analyzer' = [analyzer EXCEPT !.trained = FALSE]
    /\ UNCHANGED <<train_pc, pixels, old_map>>

GetDensity(x, y) ==
    LET r == get_density_at(analyzer, x, y) IN
    /\ q' = [op |-> "at", x |-> x, y |-> y, raised |-> r.raised, value |-> r.value,
             result |-> ""]
    /\ UNCHANGED <<analyzer, train_pc, pixels, old_map>>

GetDensityNorm(xn, yn) ==
    LET r == get_density_normalized(analyzer, xn, yn) IN
    /\ q' = [op |-> "norm", x |-> xn, y |-> yn, raised |-> r.raised, value |-> r.value,
             result |-> ""]
    /\ UNCHANGED <<analyzer, train_pc, pixels, old_map>>

LabNext ==
    \/ \E image \in Images \cup {BadImage} :
          LoadImage(image) /\ UNCHANGED <<sessionVars, appVars, fitVars, webVars, hsVars>>
    \/ \E x \in -2..(LabW + 1), y \in -2..(LabH + 1) :
          GetDensity(x, y) /\ UNCHANGED <<sessionVars, appVars, fitVars, webVars, hsVars>>
    \/ \E xn \in -1..(NormDen + 1), yn \in -1..(NormDen + 1) :
          GetDensityNorm(xn, yn) /\ UNCHANGED <<sessionVars, appVars, fitVars, webVars, hsVars>>

SpecLab == Init /\ [][LabNext]_vars

----------------------------------------------------------------------------
(* load_and_train running statement by statement while get_density is      *)
(* served: the bridge and the web UI call into the same analyzer.          *)

TrainBegin(image) ==
    /\ train_pc = "idle"
    /\ IF image = BadImage
       THEN UNCHANGED <<analyzer, train_pc, pixels, old_map, q>>
       ELSE /\ analyzer' = train_fit(analyzer, image)
            /\ pixels' = image
            /\ old_map' = analyzer.haptic_map
            /\ train_pc' = "fitted"
            /\ q' = NoQuery

TrainReset ==
    /\ train_pc = "fitted"
    /\ analyzer' = train_reset(analyzer)
    /\ train_pc' = "rows"
    /\ UNCHANGED <<pixels, old_map, q>>

TrainRow ==
    /\ train_pc = "rows"
    /\ Len(analyzer.haptic_map) < analyzer.image_height
    /\ analyzer' = train_row(analyzer, pixels)
    /\ UNCHANGED <<train_pc, pixels, old_map, q>>

TrainDone ==
    /\ train_pc = "rows"
    /\ Len(analyzer.haptic_map) >= analyzer.image_height
    /\ analyzer' = train_done(analyzer)
    /\ train_pc' = "idle"
    /\ pixels' = <<>>
    /\ UNCHANGED <<old_map, q>>

RetrainNext ==
    \/ \E image \in Images \cup {BadImage} :
          TrainBegin(image) /\ UNCHANGED <<sessionVars, appVars, fitVars, webVars, hsVars>>
    \/ TrainReset /\ UNCHANGED <<sessionVars, appVars, fitVars, webVars, hsVars>>
    \/ TrainRow /\ UNCHANGED <<sessionVars, appVars, fitVars, webVars, hsVars>>
    \/ TrainDone /\ UNCHANGED <<sessionVars, appVars, fitVars, webVars, hsVars>>
    \/ \E x \in -1..LabW, y \in -1..LabH :
          GetDensity(x, y) /\ UNCHANGED <<sessionVars, appVars, fitVars, webVars, hsVars>>

SpecRetrain == Init /\ [][RetrainNext]_vars

----------------------------------------------------------------------------
(* Mode names on their way: the web UI's set_mode message into the app-lab  *)
(* global, and MCUCommunicator.set_mode onto the wire.                      *)

\* the names tried: the enumeration, a name outside it and the empty name
ModeNames == Modes \cup {"CUSTOM", ""}

\* the message data of a set_mode message: <<name>>, or <<>> without a 'mode' key
ModeData == {<<name>> : name \in ModeNames} \cup {<<>>}

\* on_set_mode that falls back to DIRECT for a name it does not know
on_set_mode_validating(w, data) ==
    IF data # <<>>
    THEN [w EXCEPT !.current_mode = IF data[1] \in Modes THEN data[1] ELSE "DIRECT",
                   !.handler = "on_set_mode", !.data = data,
                   !.returned = <<"Mode set to", data[1]>>]
    ELSE [w EXCEPT !.handler = "on_set_mode", !.data = data,
                   !.returned = <<"error: no mode specified">>]

\* on_set_mode(client, data)
on_set_mode(w, data) ==
    IF data # <<>>
    THEN [w EXCEPT !.current_mode = data[1],
                   !.handler = "on_set_mode", !.data = data,
                   !.returned = <<"Mode set to", data[1]>>]
    ELSE [w EXCEPT !.handler = "on_set_mode", !.data = data,
                   !.returned = <<"error: no mode specified">>]

\* get_current_mode()
get_current_mode(w) == w.current_mode

OnSetMode(data) == web' = on_set_mode(web, data)

ModesNext ==
    \/ SessConnect /\ UNCHANGED <<appVars, labVars, fitVars, webVars, hsVars>>
    \/ SessSetMode /\ UNCHANGED <<appVars, labVars, fitVars, webVars, hsVars>>
    \/ SessDisconnect /\ UNCHANGED <<appVars, labVars, fitVars, webVars, hsVars>>
    \/ \E data \in ModeData :
          OnSetMode(data) /\ UNCHANGED <<sessionVars, appVars, labVars, fitVars, hsVars>>

SpecModes == Init /\ [][ModesNext]_vars

----------------------------------------------------------------------------
(* The web UI's messages: load_image, get_density and set_mode, and the     *)
(* accessors the sketch polls.                                              *)

\* the message data of a get_density message: <<x, y>> in units of 1/NormDen,
\* <<x>> when 'y' is missing, <<>> when both are missing
DensityData ==
    {<<xn, yn>> : xn \in 0..NormDen, yn \in 0..NormDen} \cup {<<0>>, <<>>}

\* on_get_density that publishes 0 when a coordinate is missing
on_get_density_zeroing(w, an, data) ==
    IF Len(data) = 2
    THEN LET r == get_density_normalized(an, data[1], data[2]) IN
         IF r.raised
         THEN [w EXCEPT !.handler = "on_get_density", !.data = data,
                        !.returned = <<"IndexError">>]
         ELSE [w EXCEPT !.current_density = r.value,
                        !.handler = "on_get_density", !.data = data,
                        !.returned = <<"density", r.value>>]
    ELSE [w EXCEPT !.current_density = 0,
                   !.handler = "on_get_density", !.data = data,
                   !.returned = <<"density", 0>>]

\* on_get_density(client, data)
on_get_density(w, an, data) ==
    IF Len(data) = 2
    THEN LET r == get_density_normalized(an, data[1], data[2]) IN
         IF r.raised
         THEN [w EXCEPT !.handler = "on_get_density", !.data = data,
                        !.returned = <<"IndexError">>]
         ELSE [w EXCEPT !.current_density = r.value,
                        !.handler = "on_get_density", !.data = data,
                        !.returned = <<"density", r.value>>]
    ELSE [w EXCEPT !.handler = "on_get_density", !.data = data,
                   !.returned = <<"density", 0>>]

\* get_current_density()
get_current_density(w) == w.current_density

OnGetDensity(data) == web' = on_get_density(web, analyzer, data)

\* the images the web UI uploads: one that trains and one that does not decode
WebImages == {RampImage, BadImage}

WebNext ==
    \/ \E image \in WebImages :
          LoadImage(image) /\ UNCHANGED <<sessionVars, appVars, fitVars, webVars, hsVars>>
    \/ \E data \in DensityData :
          OnGetDensity(data) /\ UNCHANGED <<sessionVars, appVars, labVars, fitVars, hsVars>>
    \/ \E data \in ModeData :
          OnSetMode(data) /\ UNCHANGED <<sessionVars, appVars, labVars, fitVars, hsVars>>

SpecWeb == Init /\ [][WebNext]_vars

----------------------------------------------------------------------------
(* Claims about the scanner *)

Clamp(v, lo, hi) == IF v < lo THEN lo ELSE IF v > hi THEN hi ELSE v

\* C2 (as claimed): once the port has been closed, the last frame written to it
\* is the zero-density frame D:0.
C2_Claim ==
    mcu.serial = "closed" =>
        (wire # <<>> /\ Last(wire).op = "D" /\ Last(wire).val = 0)

\* C3 (as claimed): when main() is left, shutdown() has been called exactly once.
C3_Claim == pc = "exited" => shutdown_calls = 1

\* C6: after a failed connect(), handle_input and process_haptic_feedback end
\* without an exception and without a write, a mode key sets the current mode
\* and an in-bounds cursor sets the current density to the map's value there,
\* the previous density to the one before.
C6_Step ==
    conn \in {"open_fail", "read_fail"} =>
        /\ \A ev \in Events, ok \in BOOLEAN :
              HandleInput(ev, ok, "none") =>
                  /\ pc' = "feedback" /\ exc' = "none" /\ wire' = wire
                  /\ ev = "K_1" => haptic_mode' = "DIRECT"
                  /\ ev = "K_2" => haptic_mode' = "TEXTURE"
                  /\ ev = "K_3" => haptic_mode' = "TUMOR_LOCK"
                  /\ ev = "K_4" => haptic_mode' = "EDGE_DETECT"
        /\ \A pos \in MousePositions, ok \in BOOLEAN :
              ProcessHapticFeedback(pos[1], pos[2], ok) =>
                  /\ pc' = "render" /\ exc' = "none" /\ wire' = wire
                  /\ (pos[1] \in 0..(DispW - 1) /\ pos[2] \in 0..(DispH - 1)) =>
                        /\ current_density' = seg_map[pos[2] + 1][pos[1] + 1]
                        /\ prev_density' = current_density

C6_OfflineResilience == [][C6_Step]_vars

\* without hardware the loop has put the cursor on a dense pixel after a mode key
C6_Witness ==
    /\ conn = "open_fail" /\ pc = "render" /\ wire = <<>>
    /\ haptic_mode = "EDGE_DETECT" /\ current_density = 255 /\ prev_density = 80

C18_Step ==
    /\ \A ev \in {"K_1", "K_2", "K_3", "K_4"}, ok \in BOOLEAN :
          LET s == _set_haptic_mode(Scanner, KeyMode(ev), ok)
          IN s.haptic_mode = KeyMode(ev) /\ ~s.raised
    /\ (Len(wire') > Len(wire) /\ Last(wire').op = "M") => haptic_mode' = Last(wire').val

\* C18: _set_haptic_mode(m) makes m the current mode whether set_mode's write
\* succeeds, fails or is skipped because the session is offline; whenever a
\* mode frame is attempted, the current mode is the one it names.
C18_ModeUpdated == [][C18_Step]_vars

\* the mode frame for DIRECT failed to be written, and DIRECT is the current mode
C18_Witness ==
    /\ wire # <<>> /\ Last(wire) = Frame("M", "DIRECT", FALSE)
    /\ haptic_mode = "DIRECT" /\ pc = "feedback"

C20_Step ==
    haptic_mode' # haptic_mode =>
        /\ pc = "loop" /\ running /\ pc' = "feedback"
        /\ \E ev \in {"K_1", "K_2", "K_3", "K_4"} : haptic_mode' = KeyMode(ev)
        /\ current_density' = current_density /\ prev_density' = prev_density

\* C20: the current mode changes only when handle_input takes a mode key: no
\* tick of the loop (cursor in or out of bounds, any mode, any densities), no
\* write, failed write, connect or shutdown changes it.
C20_ModeOnlyOnCommand == [][C20_Step]_vars

\* a tick in EDGE_DETECT mode has moved the density from the lowest to the
\* highest level; the mode is still EDGE_DETECT
C20_Witness ==
    /\ haptic_mode = "EDGE_DETECT" /\ pc = "render"
    /\ prev_density = 0 /\ current_density = 255

InBounds(m) ==
    m # NoMouse /\ 0 <= m[1] /\ m[1] < DispW /\ 0 <= m[2] /\ m[2] < DispH

OutOfBounds(m) == m # NoMouse /\ ~InBounds(m)

C21_Step ==
    (pc = "feedback" /\ pc' # "feedback" /\ OutOfBounds(mouse')) =>
        /\ current_density' = current_density
        /\ prev_density' = prev_density
        /\ wire' = wire /\ mcu' = mcu

\* C21: a pass of the loop whose cursor position is outside the image leaves
\* current_density and prev_density as they were, and sends nothing.
C21_OutsideKeeps == [][C21_Step]_vars

\* the cursor is outside the image in this pass, and the densities of the
\* passes before it, 255 after 80, are still there
C21_Witness ==
    /\ pc = "render" /\ OutOfBounds(mouse)
    /\ current_density = 255 /\ prev_density = 80

C22_Step ==
    (pc = "feedback" /\ pc' # "feedback" /\ InBounds(mouse')) =>
        LET v == get_haptic_value(seg_map, mouse'[1], mouse'[2]) IN
        /\ current_density' = v
        /\ prev_density' = current_density
        /\ Len(wire') > Len(wire) =>
              (Len(wire') = Len(wire) + 1 /\ Last(wire').op = "D" /\ Last(wire').val = v)

\* C22: in every mode, EDGE_DETECT included, and whatever the previous
\* density, the density of an in-bounds pass is the segmenter's value at the
\* cursor, and the frame written for it carries that value.
C22_NoReshaping == [][C22_Step]_vars

\* in EDGE_DETECT the cursor went from the lowest to the middle level, a
\* step above the edge threshold, and the density is the middle level
C22_Witness ==
    /\ pc = "render" /\ InBounds(mouse) /\ haptic_mode = "EDGE_DETECT"
    /\ prev_density = 0 /\ current_density = 80
    /\ get_haptic_value(seg_map, mouse[1], mouse[2]) = 80
    /\ current_density - prev_density > edge_detection_threshold

\* C28: every density held as current or previous density, and every density
\* placed in a D frame, is 0 or one of the segmenter's three haptic values,
\* hence a whole number from 0 to 255.
C28_DensityRange ==
    /\ current_density \in {0} \cup Densities
    /\ prev_density \in {0} \cup Densities
    /\ \A i \in 1..Len(wire) : wire[i].op = "D" => wire[i].val \in Densities
    /\ seg_map # NoMap =>
          \A y \in 1..DispH, x \in 1..DispW : seg_map[y][x] \in Densities
    /\ \A d \in Densities : d \in 0..255

\* the middle haptic value is the current density and has been delivered in a D frame
C28_Witness ==
    /\ current_density = 80
    /\ wire # <<>> /\ Last(wire) = Frame("D", 80, TRUE)

C30_Step ==
    /\ mcu.demo_mode => mcu'.demo_mode
    /\ conn # "none" => conn' = conn
    /\ (conn # "none" /\ mcu.serial = "None") => mcu'.serial = "None"

\* C30: connect() is attempted once; once demo_mode is set it stays set, and
\* a port that did not open is never opened later, whatever keys, passes of
\* the loop and shutdown follow.
C30_NoReconnect == [][C30_Step]_vars

\* the endpoint did not open; since then a mode key was taken and a pass of
\* the loop has looked up the middle level, and the session is still offline
C30_Witness ==
    /\ conn = "open_fail" /\ mcu.demo_mode /\ mcu.serial = "None"
    /\ haptic_mode = "TUMOR_LOCK" /\ pc = "render" /\ current_density = 80

\* connect() opened the port and left the session online
Connected == conn \in {"ready", "timeout"}

\* C31: on a connected session the first write made on the port is the M
\* frame with the configured initial mode; it is made once connect() has
\* returned, and every D frame of the loop comes after it.  Nothing is
\* written on a session that is not connected.
C31_StartupOrder ==
    /\ Connected => wire # <<>>
    /\ wire # <<>> =>
          /\ Connected
          /\ wire[1].op = "M" /\ wire[1].val = InitialMode
          /\ \A i \in 1..Len(wire) : wire[i].op = "D" => i > 1

\* the port answered MCU_READY, the initial mode went out first and a pass of
\* the loop has sent a density frame after it
C31_Witness ==
    /\ conn = "ready" /\ pc = "render"
    /\ Len(wire) = 2
    /\ wire[1] = Frame("M", InitialMode, TRUE)
    /\ wire[2].op = "D" /\ wire[2].ok

\* C9 (as claimed, for TissueSegmenter.get_haptic_value): a lookup at any
\* coordinates answers as the lookup at the coordinates clamped into the map.
C9_Claim ==
    seg_map # NoMap =>
        \A x \in -2..(DispW + 1), y \in -2..(DispH + 1) :
            get_haptic_value(seg_map, x, y)
                = get_haptic_value(seg_map, Clamp(x, 0, DispW - 1), Clamp(y, 0, DispH - 1))

----------------------------------------------------------------------------
(* Claims about the analyzer *)

\* the map that the running load_and_train is building, complete
NewMap ==
    IF train_pc = "idle" THEN analyzer.haptic_map
    ELSE [y \in 1..LabH |-> HapticRow(pixels, analyzer.kmeans, LabW, y - 1)]

\* the lookup in a complete map (0 without one)
FullLookup(hm, x, y) ==
    IF hm = NoMap THEN 0
    ELSE hm[Clamp(y, 0, LabH - 1) + 1][Clamp(x, 0, LabW - 1) + 1]

\* C8 (as claimed): a lookup made while load_and_train runs does not fail and
\* answers from the complete old map or from the complete new one.
C8_Claim ==
    q.op = "at" =>
        /\ ~q.raised
        /\ q.value \in {FullLookup(old_map, q.x, q.y), FullLookup(NewMap, q.x, q.y)}

\* C10: on a trained analyzer, a normalized lookup at (x_norm, y_norm) in
\* [0,1] x [0,1] answers as the pixel lookup at (min(trunc(x_norm * width),
\* width - 1), min(trunc(y_norm * height), height - 1)); (0,0) and (1,1) are
\* the first and the last pixel.
C10_Normalized ==
    (q.op = "norm" /\ analyzer.trained /\ q.x \in 0..NormDen /\ q.y \in 0..NormDen) =>
        LET w == analyzer.image_width
            h == analyzer.image_height
            r == get_density_at(analyzer, Min2((q.x * w) \div NormDen, w - 1),
                                          Min2((q.y * h) \div NormDen, h - 1))
        IN /\ ~q.raised /\ ~r.raised
           /\ q.value = r.value
           /\ (q.x = 0 /\ q.y = 0) => q.value = analyzer.haptic_map[1][1]
           /\ (q.x = NormDen /\ q.y = NormDen) => q.value = analyzer.haptic_map[h][w]

\* a normalized lookup at (1/2, 1) has found the densest level
C10_Witness ==
    /\ q.op = "norm" /\ analyzer.trained
    /\ 2 * q.x = NormDen /\ q.y = NormDen
    /\ q.value = 255

\* C11: before any successful train, get_density_at and get_density_normalized
\* answer 0 for every coordinate pair, in range or not, and do not raise; the
\* segmenter's get_haptic_value answers 0 while it has no map.
C11_Untrained ==
    /\ (~analyzer.trained /\ q.op # "none") => (~q.raised /\ q.value = 0)
    /\ seg_map = NoMap =>
          \A x \in -2..(DispW + 1), y \in -2..(DispH + 1) :
              get_haptic_value(seg_map, x, y) = 0

\* an untrained analyzer, after a load that failed or none, has answered a
\* normalized lookup beyond the right edge
C11_Witness ==
    /\ ~analyzer.trained /\ analyzer.haptic_map = NoMap
    /\ seg_map = NoMap
    /\ q.op = "norm" /\ q.x > NormDen /\ q.y < 0
    /\ q.value = 0

C12_Step ==
    q'.op = "at" =>
        /\ analyzer' = analyzer
        /\ get_density_at(analyzer', q'.x, q'.y) = [raised |-> q'.raised, value |-> q'.value]

\* C12: get_density_at is a pure read: a step that answers a lookup leaves the
\* haptic map, its size and the trained flag as they were, and the same lookup
\* made again in the state it leaves gives the same density.
C12_PureRead == [][C12_Step]_vars

\* a lookup on a trained analyzer has answered the middle density
C12_Witness ==
    /\ q.op = "at" /\ analyzer.trained
    /\ ~q.raised /\ q.value = 128

----------------------------------------------------------------------------
(* Claims about SimpleKMeans *)

NonDecreasing(cs) == \A i \in 1..Len(cs), j \in 1..Len(cs) : i < j => ~RatLess(cs[j], cs[i])

\* C13: for every n_clusters >= 2 and every non-empty data list, the centroids
\* fit() returns are in non-decreasing order, the darkest first; they are the
\* centroids of the last round, sorted.
C13_Sorted ==
    (km.pc = "done" /\ km.n_clusters >= 2 /\ km.data # <<>>) =>
        /\ Len(km.centroids) = km.n_clusters
        /\ NonDecreasing(km.centroids)
        /\ km.centroids = fit(km.data, km.n_clusters, km.max_iters)

\* fit() has returned three distinct centroids after all its rounds, the
\* middle one an intensity that is not in the data
C13_Witness ==
    /\ km.pc = "done" /\ km.n_clusters = 3 /\ km.rounds = max_iters
    /\ RatLess(km.centroids[1], km.centroids[2])
    /\ RatLess(km.centroids[2], km.centroids[3])
    /\ \A i \in 1..Len(km.data) : km.centroids[2] # <<km.data[i], 1>>

\* C14 (as claimed): fit with n_clusters < 2 is rejected with
\* InvalidConfiguration: no division by zero, no other error, no model.
C14_Claim ==
    (km.pc # "new" /\ km.n_clusters < 2 /\ km.data # <<>>) =>
        /\ km.pc = "raised"
        /\ km.error = "InvalidConfiguration"
        /\ km.centroids = <<>>

Uniform(data) == data # <<>> /\ \A i \in 1..Len(data) : data[i] = data[1]

\* C15: on data whose values all equal v, fit with 3 clusters raises nothing
\* (the step is 0, not a division by zero), starts with every centroid at v,
\* and after every round every centroid is still the number v.
C15_Uniform ==
    (km.pc # "new" /\ km.n_clusters = 3 /\ Uniform(km.data)) =>
        /\ km.pc # "raised" /\ km.error = "none"
        /\ Len(km.centroids) = 3
        /\ \A i \in 1..3 : km.centroids[i] = <<km.data[1], 1>>

\* fit is past its second round on three samples of 80
C15_Witness ==
    /\ km.pc = "rounds" /\ km.n_clusters = 3 /\ km.rounds >= 2
    /\ km.data = <<80, 80, 80>>
    /\ km.centroids = <<<<80, 1>>, <<80, 1>>, <<80, 1>>>>

----------------------------------------------------------------------------
(* Claims about training *)

Count(px, v) == Cardinality({i \in 1..Len(px) : px[i] = v})

\* the three intensities 20, 150, 240 and nothing else, as many of each
EqualBands(px) ==
    /\ px # <<>>
    /\ \A i \in 1..Len(px) : px[i] \in {Band(0), Band(1), Band(2)}
    /\ Count(px, Band(0)) = Count(px, Band(1))
    /\ Count(px, Band(1)) = Count(px, Band(2))

\* C16: for an image of the intensities 20, 150 and 240 in equal proportion,
\* training ends with the centroids 20, 150, 240, and the haptic map has the
\* lowest density on every 20-pixel, the middle density on every 150-pixel
\* and the highest density on every 240-pixel.
C16_ThreeBands ==
    (analyzer.trained /\ EqualBands(pixels)) =>
        /\ analyzer.kmeans = <<<<20, 1>>, <<150, 1>>, <<240, 1>>>>
        /\ \A y \in 1..LabH, x \in 1..LabW :
              \A i \in 0..2 :
                  pixels[(y - 1) * LabW + x] = Band(i) =>
                      analyzer.haptic_map[y][x] = cluster_to_density(i)
        /\ cluster_to_density(0) < cluster_to_density(1)
        /\ cluster_to_density(1) < cluster_to_density(2)

\* an image of equal bands is trained and a lookup on a 240-pixel has been answered
C16_Witness ==
    /\ analyzer.trained /\ EqualBands(pixels)
    /\ q.op = "at" /\ q.x \in 0..(LabW - 1) /\ q.y \in 0..(LabH - 1)
    /\ pixels[q.y * LabW + q.x + 1] = 240
    /\ q.value = 255

----------------------------------------------------------------------------
(* Claims about mode names *)

\* C19: a mode name outside the enumeration is taken as it is: on_set_mode
\* makes the name it acknowledges the current mode, unchanged, and on a
\* connected session set_mode attempts exactly one M frame carrying the name
\* as given, and does not raise.
C19_AnyModeName ==
    /\ web.returned[1] = "Mode set to" => get_current_mode(web) = web.returned[2]
    /\ \A name \in ModeNames, ok \in BOOLEAN :
          LET r == set_mode(mcu, wire, name, ok)
          IN /\ ~r.raised
             /\ (mcu.serial # "None" /\ ~mcu.demo_mode) =>
                   (Len(r.wire) = Len(wire) + 1 /\ Last(r.wire).op = "M"
                    /\ Last(r.wire).val = name)

\* the name CUSTOM, outside the enumeration, is the current mode of the app
\* and has been written to the open port in an M frame
C19_Witness ==
    /\ web.returned = <<"Mode set to", "CUSTOM">>
    /\ web.current_mode = "CUSTOM" /\ "CUSTOM" \notin Modes
    /\ mcu.serial = "open" /\ ~mcu.demo_mode
    /\ wire # <<>> /\ Last(wire) = Frame("M", "CUSTOM", TRUE)

\* centroid a is strictly nearer to the value v than centroid b
Nearer(v, a, b) == Abs(v * a[2] - a[1]) * b[2] < Abs(v * b[2] - b[1]) * a[2]

\* v belongs to the partition of centroid i: no centroid is nearer, and the
\* ones before it are farther
InPartition(cs, v, i) ==
    \A m \in 1..Len(cs) :
        /\ m < i => Nearer(v, cs[i], cs[m])
        /\ m > i => ~Nearer(v, cs[m], cs[i])

C25_Step ==
    /\ (km.pc = "rounds" /\ km'.pc = "done") =>
          (km.rounds = km.max_iters /\ km'.rounds = km.max_iters)
    /\ (km.pc = "rounds" /\ km'.pc = "rounds" /\ km'.rounds = km.rounds + 1) =>
          \A i \in 1..Len(km.centroids) :
              LET part == SelectSeq(km.data, LAMBDA v : InPartition(km.centroids, v, i))
              IN IF part = <<>>
                 THEN km'.centroids[i] = km.centroids[i]
                 ELSE km'.centroids[i][1] * Len(part) = km'.centroids[i][2] * SumSeq(part)

\* C25: fit makes exactly max_iters rounds, converged or not, and in each
\* round a centroid whose partition is empty keeps its value while every
\* other centroid becomes the mean of its partition.
C25_Rounds == [][C25_Step]_vars

\* two rounds are done of ten, the centroids no longer move, one of them has
\* an empty partition, and fit is still in its loop
C25_Witness ==
    /\ km.pc = "rounds" /\ km.n_clusters = 3 /\ km.max_iters = max_iters
    /\ km.rounds = 2
    /\ Round(km.centroids, km.data) = km.centroids
    /\ \E i \in 1..3 : \A j \in 1..Len(km.data) : ~InPartition(km.centroids, km.data[j], i)

\* the density the haptic map holds for pixel idx (1-based) of the pixel list
MapAt(idx) == analyzer.haptic_map[((idx - 1) \div LabW) + 1][((idx - 1) % LabW) + 1]

\* C26: after a successful train the centroids are sorted, every pixel's
\* density is the table entry for the rank of its nearest centroid (the
\* lower rank on a tie), and the map is monotone: of two pixels, the one that
\* is not brighter has a density that is not higher.
C26_Monotone ==
    (analyzer.trained /\ pixels # <<>>) =>
        /\ NonDecreasing(analyzer.kmeans)
        /\ \A i \in 1..Len(pixels) :
              \E r \in 1..n_clusters :
                  /\ InPartition(analyzer.kmeans, pixels[i], r)
                  /\ MapAt(i) = cluster_to_density(r - 1)
        /\ \A i \in 1..Len(pixels), j \in 1..Len(pixels) :
              pixels[i] <= pixels[j] => MapAt(i) <= MapAt(j)

\* the ramp image is trained, its map holds all three densities, and a
\* lookup has answered the middle one
C26_Witness ==
    /\ analyzer.trained /\ pixels = RampImage
    /\ {MapAt(i) : i \in 1..Len(pixels)} = {0, 128, 255}
    /\ q.op = "at" /\ ~q.raised /\ q.value = 128

C27_Step ==
    /\ q'.op = "load" => (~q'.raised /\ q'.result \in {"success", "error"})
    /\ (q'.op = "load" /\ q'.result = "error") => analyzer' = analyzer
    /\ (q'.op = "load" /\ q'.result = "success") => analyzer'.trained

\* C27: load_and_train on data that cannot be decoded returns an error result
\* and does not raise, and the haptic map, its size and the trained flag stay
\* exactly as they were, so lookups go on answering from the old map.
C27_FailedTrain == [][C27_Step]_vars

\* a load has just failed on an analyzer that holds a trained map with the
\* highest density at its first pixel
C27_Witness ==
    /\ q.op = "load" /\ q.result = "error"
    /\ analyzer.trained /\ analyzer.haptic_map # NoMap
    /\ get_density_at(analyzer, 0, 0) = [raised |-> FALSE, value |-> 255]

----------------------------------------------------------------------------
(* Claims about the published state *)

\* a step that leaves the analyzer alone is a socket handler's
C29_Step ==
    UNCHANGED labVars =>
        /\ (web'.handler = "on_get_density" /\ Len(web'.data) = 2) =>
              LET v == get_density_normalized(analyzer, web'.data[1], web'.data[2]).value
              IN /\ get_current_density(web') = v
                 /\ web'.returned = <<"density", v>>
        /\ (web'.handler = "on_get_density" /\ Len(web'.data) < 2) =>
              /\ web'.returned = <<"density", 0>>
              /\ get_current_density(web') = get_current_density(web)
        /\ (web'.handler = "on_set_mode" /\ web'.data = <<>>) =>
              get_current_mode(web') = get_current_mode(web)
        /\ web'.handler = "on_get_density" => get_current_mode(web') = get_current_mode(web)
        /\ web'.handler = "on_set_mode" =>
              get_current_density(web') = get_current_density(web)

\* C29: after a get_density message with x and y, get_current_density
\* returns get_density_normalized(x, y) of that message; a message without x
\* or y returns 0 and leaves the published density as it was; a set_mode
\* message without a mode leaves the published mode as it was.
C29_Published == [][C29_Step]_vars

\* a get_density message without y has just been answered with 0, and the
\* published density is still the 255 of the lookup before it
C29_Witness ==
    /\ web.handler = "on_get_density" /\ Len(web.data) = 1
    /\ web.returned = <<"density", 0>>
    /\ get_current_density(web) = 255
    /\ analyzer.trained

====
